---- MODULE Spec2Model ----
(***************************************************************************)
(* Model of Lab4_2_OCR_Tesseract/ocr_pipeline.py: the OCR engine           *)
(* selection, the regex field extractor, the per-document pipeline, the   *)
(* batch loop of main and the accuracy report.                             *)
(*                                                                         *)
(* A text is a sequence of characters; a character is a one-symbol string  *)
(* (the currency signs outside ASCII are written by name: "EURO", ...).    *)
(***************************************************************************)
EXTENDS Integers, Sequences, FiniteSets, TLC

----------------------------------------------------------------------------
(* Characters and the character classes of the patterns                    *)

Digits == {"0", "1", "2", "3", "4", "5", "6", "7", "8", "9"}

LowerLetters ==
    {"a", "b", "c", "d", "e", "f", "g", "h", "i", "j", "k", "l", "m",
     "n", "o", "p", "q", "r", "s", "t", "u", "v", "w", "x", "y", "z"}

UpperLetters ==
    {"A", "B", "C", "D", "E", "F", "G", "H", "I", "J", "K", "L", "M",
     "N", "O", "P", "Q", "R", "S", "T", "U", "V", "W", "X", "Y", "Z"}

LowerOf ==
    [c \in UpperLetters |->
       CASE c = "A" -> "a" [] c = "B" -> "b" [] c = "C" -> "c" [] c = "D" -> "d"
         [] c = "E" -> "e" [] c = "F" -> "f" [] c = "G" -> "g" [] c = "H" -> "h"
         [] c = "I" -> "i" [] c = "J" -> "j" [] c = "K" -> "k" [] c = "L" -> "l"
         [] c = "M" -> "m" [] c = "N" -> "n" [] c = "O" -> "o" [] c = "P" -> "p"
         [] c = "Q" -> "q" [] c = "R" -> "r" [] c = "S" -> "s" [] c = "T" -> "t"
         [] c = "U" -> "u" [] c = "V" -> "v" [] c = "W" -> "w" [] c = "X" -> "x"
         [] c = "Y" -> "y" [] c = "Z" -> "z"]

\* str.lower() on one character
Fold(c) == IF c \in UpperLetters THEN LowerOf[c] ELSE c

\* \w, \s and the classes written in the patterns
WordChars == Digits \cup LowerLetters \cup UpperLetters \cup {"_"}
SpaceChars == {" ", "\n", "\t", "\r"}
\* the currency symbols without the dollar sign
CurrencySymbols_NoDollar == {"EURO", "RUPEE", "POUND", "YEN"}
CurrencySymbols == {"$", "EURO", "RUPEE", "POUND", "YEN"}
DateSeparators == {"/", "-"}
AmountSeparators == {",", "."}
EmailLocalChars ==
    Digits \cup LowerLetters \cup UpperLetters \cup {".", "_", "%", "+", "-"}
EmailDomainChars == Digits \cup LowerLetters \cup UpperLetters \cup {".", "-"}
\* [A-Z|a-z]: the bar is a member of the class
EmailTldChars == LowerLetters \cup UpperLetters \cup {"|"}

----------------------------------------------------------------------------
(* The regular-expression engine (re.finditer): a pattern is a sequence of *)
(* items, each a word boundary, a character class with a greedy            *)
(* repetition range, or an alternation of literal words.                   *)

Boundary == [kind |-> "b", set |-> {}, min |-> 0, max |-> 0, unb |-> FALSE, words |-> <<>>]
Rep(S, lo, hi) == [kind |-> "cls", set |-> S, min |-> lo, max |-> hi, unb |-> FALSE, words |-> <<>>]
AtLeast(S, lo) == [kind |-> "cls", set |-> S, min |-> lo, max |-> lo, unb |-> TRUE, words |-> <<>>]
One(S) == Rep(S, 1, 1)
Opt(S) == Rep(S, 0, 1)
Star(S) == AtLeast(S, 0)
Plus(S) == AtLeast(S, 1)
Alt(ws) == [kind |-> "alt", set |-> {}, min |-> 0, max |-> 0, unb |-> FALSE, words |-> ws]

SetMin(S) == CHOOSE x \in S : \A y \in S : x <= y
SetMax(S) == CHOOSE x \in S : \A y \in S : y <= x

UpperOf(c) == CHOOSE u \in UpperLetters : LowerOf[u] = c

\* membership of a character in a class, under re.IGNORECASE when ic
InClass(c, S, ic) ==
    \/ c \in S
    \/ ic /\ c \in UpperLetters /\ LowerOf[c] \in S
    \/ ic /\ c \in LowerLetters /\ UpperOf(c) \in S

IsWordAt(text, p) == p >= 1 /\ p <= Len(text) /\ text[p] \in WordChars

\* \b between position p-1 and p
IsBoundary(text, p) == IsWordAt(text, p - 1) # IsWordAt(text, p)

\* the number of consecutive characters of class S starting at p, counted up
\* to cap
RunLen(text, p, S, ic, cap) ==
    LET most == IF Len(text) - p + 1 < cap THEN Len(text) - p + 1 ELSE cap
    IN  CHOOSE n \in 0..most :
          /\ \A i \in 0..(n - 1) : InClass(text[p + i], S, ic)
          /\ n = most \/ ~InClass(text[p + n], S, ic)

\* does the literal word w stand at position p
WordAt(text, p, w, ic) ==
    /\ p + Len(w) - 1 <= Len(text)
    /\ \A j \in 1..Len(w) :
          IF ic THEN Fold(text[p + j - 1]) = Fold(w[j]) ELSE text[p + j - 1] = w[j]

\* The position after the match of items k.. of pat starting at p, as the
\* backtracking matcher finds it (greedy repetitions: the longest count first;
\* alternatives in the order written); 0 when there is none.
RECURSIVE MatchEnd(_, _, _, _, _), TryCounts(_, _, _, _, _, _, _), TryWords(_, _, _, _, _, _)
MatchEnd(pat, k, text, p, ic) ==
    IF k > Len(pat) THEN p
    ELSE LET it == pat[k] IN
      CASE it.kind = "b" ->
             IF IsBoundary(text, p) THEN MatchEnd(pat, k + 1, text, p, ic) ELSE 0
        [] it.kind = "cls" ->
             LET run == RunLen(text, p, it.set, ic, IF it.unb THEN Len(text) ELSE it.max)
             IN  TryCounts(pat, k, text, p, ic, run, it.min)
        [] it.kind = "alt" -> TryWords(pat, k, text, p, ic, 1)

TryCounts(pat, k, text, p, ic, c, lo) ==
    IF c < lo THEN 0
    ELSE LET e == MatchEnd(pat, k + 1, text, p + c, ic) IN
         IF e # 0 THEN e ELSE TryCounts(pat, k, text, p, ic, c - 1, lo)

TryWords(pat, k, text, p, ic, i) ==
    IF i > Len(pat[k].words) THEN 0
    ELSE LET e == IF WordAt(text, p, pat[k].words[i], ic)
                    THEN MatchEnd(pat, k + 1, text, p + Len(pat[k].words[i]), ic)
                    ELSE 0
         IN  IF e # 0 THEN e ELSE TryWords(pat, k, text, p, ic, i + 1)

\* re.finditer(pattern, text): the matched substrings (group(0)), left to
\* right, non-overlapping.  ends[p] is the position after the match that
\* starts at p, 0 when none starts there; the scan takes the first start at
\* or after pos and goes on from the end of that match.
RECURSIVE Scan(_, _, _)
Scan(text, ends, pos) ==
    LET starts == {p \in pos..Len(text) : ends[p] # 0} IN
    IF starts = {} THEN <<>>
    ELSE LET s == SetMin(starts) IN
         <<SubSeq(text, s, ends[s] - 1)>>
           \o Scan(text, ends, IF ends[s] = s THEN s + 1 ELSE ends[s])

FindFrom(pat, text, pos, ic) ==
    Scan(text, [p \in 1..Len(text) |-> MatchEnd(pat, 1, text, p, ic)], pos)

FindAll(pat, text, ic) == FindFrom(pat, text, 1, ic)

----------------------------------------------------------------------------
(* RegexPatterns                                                           *)

Months ==
    << <<"J","a","n">>, <<"F","e","b">>, <<"M","a","r">>, <<"A","p","r">>,
       <<"M","a","y">>, <<"J","u","n">>, <<"J","u","l">>, <<"A","u","g">>,
       <<"S","e","p">>, <<"O","c","t">>, <<"N","o","v">>, <<"D","e","c">> >>

CurrencyCodes ==
    << <<"U","S","D">>, <<"E","U","R">>, <<"I","N","R">>, <<"G","B","P">>,
       <<"J","P","Y">> >>

\* \d+[,.]?\d*[,.]?\d*
AmountNumber ==
    << Plus(Digits), Opt(AmountSeparators), Star(Digits), Opt(AmountSeparators),
       Star(Digits) >>

DATE_PATTERNS ==
    << << Boundary, Rep(Digits, 1, 2), One(DateSeparators), Rep(Digits, 1, 2),
          One(DateSeparators), Rep(Digits, 2, 4), Boundary >>,
       << Boundary, Rep(Digits, 4, 4), One(DateSeparators), Rep(Digits, 1, 2),
          One(DateSeparators), Rep(Digits, 1, 2), Boundary >>,
       << Boundary, Alt(Months), Star(LowerLetters), One({" "}), Rep(Digits, 1, 2),
          Opt({","}), One({" "}), Rep(Digits, 4, 4), Boundary >> >>

CURRENCY_PATTERNS ==
    << <<One(CurrencySymbols), Star(SpaceChars)>> \o AmountNumber,
       AmountNumber \o <<Star(SpaceChars), One(CurrencySymbols)>>,
       <<Boundary, Alt(CurrencyCodes), Opt({":"}), Star(SpaceChars)>> \o AmountNumber >>

EMAIL_PATTERN ==
    << Boundary, Plus(EmailLocalChars), One({"@"}), Plus(EmailDomainChars), One({"."}),
       AtLeast(EmailTldChars, 2), Boundary >>

\* str.strip(): whitespace removed at both ends
Strip(t) ==
    LET keep == {j \in 1..Len(t) : t[j] \notin SpaceChars}
    IN  IF keep = {} THEN <<>> ELSE SubSeq(t, SetMin(keep), SetMax(keep))

Range(s) == {s[j] : j \in 1..Len(s)}

\* the list `dates` before deduplication: every pattern's matches, in turn
DateMatches(text) ==
    FindAll(DATE_PATTERNS[1], text, TRUE) \o FindAll(DATE_PATTERNS[2], text, TRUE)
      \o FindAll(DATE_PATTERNS[3], text, TRUE)

\* the list `amounts` before deduplication
AmountMatches(text) ==
    LET found == FindAll(CURRENCY_PATTERNS[1], text, FALSE)
                   \o FindAll(CURRENCY_PATTERNS[2], text, FALSE)
                   \o FindAll(CURRENCY_PATTERNS[3], text, FALSE)
    IN  [j \in 1..Len(found) |-> Strip(found[j])]

\* list(set(xs)): the lists holding each member of xs once, in some order
\* (the iteration order of a set of str is not fixed by the language)
\* list(xs): the list as matched, nothing removed
ListOfSet_Keep(xs) == {xs}

ListOfSet(xs) ==
    LET S == Range(xs) IN
    {l \in [1..Cardinality(S) -> S] : \A x \in S : \E j \in 1..Cardinality(S) : l[j] = x}

extract_dates(text) == ListOfSet(DateMatches(text))

extract_amounts(text) == ListOfSet(AmountMatches(text))

\* extract_emails with the duplicates removed as for dates and amounts
extract_emails_Dedup(text) ==
    CHOOSE l \in ListOfSet(FindAll(EMAIL_PATTERN, text, FALSE)) : TRUE

extract_emails(text) == FindAll(EMAIL_PATTERN, text, FALSE)

----------------------------------------------------------------------------
(* Config, file names and paths                                            *)

INPUT_DIR == "input_documents"
OUTPUT_IMG_DIR == "output_images"
OUTPUT_JSON_DIR == "output_json"
ACCURACY_REPORT == "accuracy_report.txt"

IMAGE_EXTENSIONS ==
    { <<".","p","n","g">>, <<".","j","p","g">>,
      <<".","j","p","e","g">>, <<".","b","m","p">>,
      <<".","t","i","f","f">> }

SAMPLE_MARK == <<"s","a","m","p","l","e","_","i","n","v","o","i","c","e">>
PREPROCESSED_SUFFIX ==
    <<"_","p","r","e","p","r","o","c","e","s","s","e","d",".","p","n","g">>
EXTRACTED_SUFFIX ==
    <<"_","e","x","t","r","a","c","t","e","d",".","j","s","o","n">>

\* str.lower()
Lower(t) == [j \in 1..Len(t) |-> Fold(t[j])]

\* str.endswith(suffix)
EndsWith(t, suffix) ==
    /\ Len(suffix) <= Len(t)
    /\ SubSeq(t, Len(t) - Len(suffix) + 1, Len(t)) = suffix

\* sub in t
Contains(t, sub) ==
    \E p \in 1..(Len(t) - Len(sub) + 1) : SubSeq(t, p, p + Len(sub) - 1) = sub

\* f.lower().endswith(('.png', '.jpg', '.jpeg', '.bmp', '.tiff'))
IsImageName(f) == \E e \in IMAGE_EXTENSIONS : EndsWith(Lower(f), e)

\* os.path.join(dir, name) and os.path.basename(path)
PathJoin(dir, name) == [dir |-> dir, name |-> name]
Basename(path) == path.name

\* Path(path).stem: the final component without its last suffix (a leading
\* dot starts no suffix)
Stem(path) ==
    LET n == Basename(path)
        dots == {j \in 2..Len(n) : n[j] = "."}
    IN  IF dots = {} \/ SetMax(dots) = Len(n) THEN n ELSE SubSeq(n, 1, SetMax(dots) - 1)

\* f"sample_invoice_{i:02d}.png"
SampleName(i) ==
    SAMPLE_MARK \o <<"_", "0", CHOOSE d \in Digits : d = ToString(i)>> \o <<".","p","n","g">>

----------------------------------------------------------------------------
(* The images of the model's world.  An image file is known by what the    *)
(* libraries make of it: whether PIL opens it, whether cv2.imread decodes  *)
(* it, and the lines an OCR engine reads from it as it is (raw) and after  *)
(* preprocess_image (clean).                                               *)

sample_texts ==
    << <<"I","N","V","O","I","C","E"," ","#","0","0","1","\n","D","a","t",
          "e",":"," ","1","5","/","0","1","/","2","0","2","4","\n","A","m",
          "o","u","n","t",":"," ","$","5","0","0",".","5","0","\n","E","m",
          "a","i","l",":"," ","c","u","s","t","o","m","e","r","1","@","e",
          "x","a","m","p","l","e",".","c","o","m">>,
       <<"I","N","V","O","I","C","E"," ","#","0","0","2","\n","D","a","t",
          "e",":"," ","J","a","n"," ","2","0",","," ","2","0","2","4","\n",
          "A","m","o","u","n","t",":"," ","EURO","7","5","0",".","7","5",
          "\n","E","m","a","i","l",":"," ","b","u","y","e","r","@","c","o",
          "m","p","a","n","y",".","c","o","m">>,
       <<"I","N","V","O","I","C","E"," ","#","0","0","3","\n","D","a","t",
          "e",":"," ","2","0","2","4","-","0","2","-","1","0","\n","A","m",
          "o","u","n","t",":"," ","RUPEE","4","5","0","0","0","\n","E","m",
          "a","i","l",":"," ","c","o","n","t","a","c","t","@","b","u","s",
          "i","n","e","s","s",".","i","n">>,
       <<"I","N","V","O","I","C","E"," ","#","0","0","4","\n","D","a","t",
          "e",":"," ","0","5","/","1","5","/","2","0","2","4","\n","A","m",
          "o","u","n","t",":"," ","$","1","2","0","0",".","0","0","\n","E",
          "m","a","i","l",":"," ","u","s","e","r","@","d","o","m","a","i",
          "n",".","c","o","m">>,
       <<"I","N","V","O","I","C","E"," ","#","0","0","5","\n","D","a","t",
          "e",":"," ","F","e","b"," ","2","8",","," ","2","0","2","4","\n",
          "A","m","o","u","n","t",":"," ","U","S","D"," ","3","5","0","0",
          "\n","E","m","a","i","l",":"," ","a","d","m","i","n","@","o","r",
          "g","a","n","i","z","a","t","i","o","n",".","o","r","g">> >>

NUM_SAMPLES == 5

\* the lines of a text (str.split on the newline)
RECURSIVE SplitLines(_)
SplitLines(t) ==
    LET nl == {j \in 1..Len(t) : t[j] = "\n"} IN
    IF nl = {} THEN <<t>>
    ELSE <<SubSeq(t, 1, SetMin(nl) - 1)>> \o SplitLines(SubSeq(t, SetMin(nl) + 1, Len(t)))

\* '\n'.join(lines)
RECURSIVE JoinLines(_)
JoinLines(ls) ==
    IF Len(ls) = 0 THEN <<>>
    ELSE IF Len(ls) = 1 THEN ls[1]
    ELSE ls[1] \o <<"\n">> \o JoinLines(Tail(ls))

\* the image get_sample_images draws for sample_texts[i]: the engine reads
\* the heading alone from the image as drawn and every line once it is
\* binarized
SampleImage(i) ==
    [pil |-> TRUE, cv |-> TRUE,
     raw |-> <<SplitLines(sample_texts[i])[1]>>,
     clean |-> SplitLines(sample_texts[i])]

INV_PNG == <<"i","n","v",".","p","n","g">>
SCAN_JPG == <<"s","c","a","n",".","J","P","G">>
FAX_BMP == <<"f","a","x",".","b","m","p">>
NOTES_TXT == <<"n","o","t","e","s",".","t","x","t">>
OLD_SAMPLE_PNG == SampleName(1)
SAMPLE_NOTES_TXT == SAMPLE_MARK \o <<".","t","x","t">>
MY_SAMPLE_BMP == <<"m","y","_">> \o SAMPLE_MARK \o <<".","b","m","p">>

\* a file that is no image to either library
Unreadable == [pil |-> FALSE, cv |-> FALSE, raw |-> <<>>, clean |-> <<>>]

\* a long line of short words, as a scanned page of running text gives
LongLine == [j \in 1..500 |-> IF j % 4 = 0 THEN " " ELSE "x"]

\* what the files a user may have put in the input directory hold
UserContent(name) ==
    CASE name = INV_PNG ->
           [pil |-> TRUE, cv |-> TRUE, raw |-> <<>>,
            clean |-> << <<"1","/","2","/","2","4"," ","2","0","2","4","-","1","-","2",
              " ","1","/","2","/","2","4">>, <<"$","5"," ","a","@","b",".","c","o"," ","a","@","b",".","c",
              "o">> >>]
      [] name = FAX_BMP ->
           [pil |-> TRUE, cv |-> FALSE, raw |-> << <<"f","a","x">> >>, clean |-> <<>>]
      [] name = OLD_SAMPLE_PNG -> SampleImage(NUM_SAMPLES)
      [] name = MY_SAMPLE_BMP ->
           [pil |-> TRUE, cv |-> TRUE, raw |-> << <<"U","S","D"," ","7">> >>,
            clean |-> << <<"U","S","D"," ","7"," ","7","$">>, LongLine >>]
      [] OTHER -> Unreadable

\* the directory entries in the order the file system enumerates them
DirOrder ==
    << SCAN_JPG, INV_PNG, NOTES_TXT, FAX_BMP, MY_SAMPLE_BMP, SAMPLE_NOTES_TXT >>
      \o [i \in 1..NUM_SAMPLES |-> SampleName(i)]

\* the input directories a run may start from: none, or one holding these
InputDirs ==
    { {}, {INV_PNG}, {SCAN_JPG}, {FAX_BMP}, {INV_PNG, SCAN_JPG},
      {OLD_SAMPLE_PNG, NOTES_TXT}, {MY_SAMPLE_BMP, SAMPLE_NOTES_TXT} }

----------------------------------------------------------------------------
(* Bounds of the model                                                     *)

\* the most documents a batch lists
MaxDocs == 3
\* the most failures the environment injects in one run (an engine call that
\* throws, a write or a removal or a mkdir that fails)
MaxFaults == 2

----------------------------------------------------------------------------
(* The functions of the pipeline                                           *)

NoneImage == [none |-> TRUE, pre |-> FALSE, raw |-> <<>>, clean |-> <<>>]

ImageOf(content) == [none |-> FALSE, pre |-> FALSE, raw |-> content.raw, clean |-> content.clean]

\* the lines the OCR engine reads from an image
ReadLines(image) == IF image.pre THEN image.clean ELSE image.raw

\* configure_pytesseract(): the fixed install paths are probed on Windows
\* alone; everywhere the lookup command (where / which) decides otherwise
configure_pytesseract(platform, path_exists, lookup_found) ==
    IF platform = "Windows" THEN path_exists \/ lookup_found ELSE lookup_found

\* initialize_ocr() with ocr_engine = 'easyocr' assigned before the Reader is
\* built
initialize_ocr_EngineBeforeReader(has_pytesseract, has_easyocr, tesseract_found, reader_built, engine, reader) ==
    IF has_pytesseract /\ tesseract_found
      THEN [ret |-> TRUE, ocr_engine |-> "pytesseract", ocr_reader |-> reader]
    ELSE IF has_easyocr
      THEN IF reader_built
             THEN [ret |-> TRUE, ocr_engine |-> "easyocr", ocr_reader |-> "Reader"]
             ELSE [ret |-> FALSE, ocr_engine |-> "easyocr", ocr_reader |-> reader]
    ELSE [ret |-> FALSE, ocr_engine |-> engine, ocr_reader |-> reader]

\* initialize_ocr(): the value returned and the globals it leaves
initialize_ocr(has_pytesseract, has_easyocr, tesseract_found, reader_built, engine, reader) ==
    IF has_pytesseract /\ tesseract_found
      THEN [ret |-> TRUE, ocr_engine |-> "pytesseract", ocr_reader |-> reader]
    ELSE IF has_easyocr
      THEN IF reader_built
             THEN [ret |-> TRUE, ocr_engine |-> "easyocr", ocr_reader |-> "Reader"]
             ELSE [ret |-> FALSE, ocr_engine |-> engine, ocr_reader |-> reader]
    ELSE [ret |-> FALSE, ocr_engine |-> engine, ocr_reader |-> reader]

\* load_image handing back an image whatever Image.open did
load_image_NeverNone(content) == ImageOf(content)

\* load_image(image_path): the PIL image, or None when Image.open raises
load_image(content) == IF content.pil THEN ImageOf(content) ELSE NoneImage

\* cv2.imread(image_path): the array, or None when the file does not decode
imread(content) == IF content.cv THEN ImageOf(content) ELSE NoneImage

\* preprocess_image(cv_image): cv2.cvtColor raises on None; nothing here
\* catches it
preprocess_image(cv_image) ==
    IF cv_image.none
      THEN [raised |-> "cv2.error", value |-> NoneImage]
      ELSE [raised |-> "None", value |-> [cv_image EXCEPT !.pre = TRUE]]

\* extract_text without its try/except: the engine's exception leaves it
extract_text_NoCatch(engine, reader, image, engine_throws) ==
    IF engine \in {"pytesseract", "easyocr"} /\ engine_throws
      THEN [raised |-> "Exception", value |-> <<>>]
    ELSE IF engine = "pytesseract" \/ (engine = "easyocr" /\ reader # "None")
      THEN [raised |-> "None", value |-> JoinLines(ReadLines(image))]
    ELSE [raised |-> "None", value |-> <<>>]

\* extract_text(image_pil) under the globals ocr_engine and ocr_reader;
\* engine_throws says whether the engine's call raises
extract_text(engine, reader, image, engine_throws) ==
    IF engine = "pytesseract"
      THEN IF engine_throws
             THEN [raised |-> "None", value |-> <<>>]
             ELSE [raised |-> "None", value |-> JoinLines(ReadLines(image))]
    ELSE IF engine = "easyocr"
      THEN IF engine_throws \/ reader = "None"
             THEN [raised |-> "None", value |-> <<>>]
             ELSE [raised |-> "None", value |-> JoinLines(ReadLines(image))]
    ELSE [raised |-> "None", value |-> <<>>]

\* extract_fields(text): the dicts it may return (one per order of the
\* deduplicated lists)
extract_fields(text) ==
    {[dates |-> d, amounts |-> a, emails |-> extract_emails(text)] :
        d \in extract_dates(text), a \in extract_amounts(text)}

\* every image of the model's world and every text an engine reads from one
WorldImages ==
    {UserContent(f) : f \in UNION InputDirs} \cup {SampleImage(i) : i \in 1..NUM_SAMPLES}

WorldTexts ==
    {<<>>} \cup {JoinLines(c.raw) : c \in WorldImages}
           \cup {JoinLines(c.clean) : c \in WorldImages}

\* extract_fields over the texts of the world, evaluated once
FieldsOfWorldTexts == [t \in WorldTexts |-> extract_fields(t)]

FieldsOf(text) ==
    IF text \in WorldTexts THEN FieldsOfWorldTexts[text] ELSE extract_fields(text)

\* the dict process_document starts from
InitialResults(image_path) ==
    [filename |-> Basename(image_path),
     text_before_preprocessing |-> <<>>,
     text_after_preprocessing |-> <<>>,
     characters_before |-> 0,
     characters_after |-> 0,
     fields |-> [k \in {} |-> <<>>]]

EXTRACTED_TEXT_LIMIT == 500

\* text[:] for text[:n]
Take_All(text, n) == text

\* text[:n]
Take(text, n) == IF Len(text) <= n THEN text ELSE SubSeq(text, 1, n)

\* the json_data dict of process_document
JsonData(res, text, flds, now) ==
    [filename |-> res.filename,
     extracted_text |-> Take(text, EXTRACTED_TEXT_LIMIT),
     dates |-> flds.dates,
     amounts |-> flds.amounts,
     emails |-> flds.emails,
     processing_timestamp |-> now]

\* json.dump(..., ensure_ascii=False) of one character of a str: the quote,
\* the backslash and the control characters are written as escapes, every
\* other character as itself
JsonEscape(c) ==
    CASE c = "\"" -> "\\\""
      [] c = "\\" -> "\\\\"
      [] c = "\n" -> "\\n"
      [] c = "\r" -> "\\r"
      [] c = "\t" -> "\\t"
      [] OTHER -> c

\* a str as json.dump writes it between the quotes: per character of the
\* str, the characters written for it
JsonString(t) == [j \in 1..Len(t) |-> JsonEscape(t[j])]

\* a list of str as json.dump writes it
JsonList(l) == [j \in 1..Len(l) |-> JsonString(l[j])]

\* json.dump(data, f, indent=2, ensure_ascii=False): the document written
JsonDump(data) ==
    [filename |-> JsonString(data.filename),
     extracted_text |-> JsonString(data.extracted_text),
     dates |-> JsonList(data.dates),
     amounts |-> JsonList(data.amounts),
     emails |-> JsonList(data.emails),
     processing_timestamp |-> data.processing_timestamp]

\* save_image / save_json: the output directory after the call and the value
\* returned (the path written, None when the write fails: the function
\* reports the exception and swallows it)
save_image_NoCatch(image_array, filename, output, write_fails) ==
    IF write_fails
      THEN [raised |-> "OSError", ret |-> "None", output |-> output]
      ELSE [raised |-> "None", ret |-> "path",
            output |-> (Stem(filename) \o PREPROCESSED_SUFFIX :> image_array) @@ output]

save_image(image_array, filename, output, write_fails) ==
    IF write_fails
      THEN [raised |-> "None", ret |-> "None", output |-> output]
      ELSE [raised |-> "None", ret |-> "path",
            output |-> (Stem(filename) \o PREPROCESSED_SUFFIX :> image_array) @@ output]

save_json(filename, data, output, write_fails) ==
    IF write_fails
      THEN [raised |-> "None", ret |-> "None", output |-> output]
      ELSE [raised |-> "None", ret |-> "path",
            output |-> (Stem(filename) \o EXTRACTED_SUFFIX :> JsonDump(data)) @@ output]

AfterInitialize_Continue(ret) == "dirs"

\* main: if not initialize_ocr(): return
AfterInitialize(ret) == IF ret THEN "dirs" ELSE "returned"

FieldsInput_Raw(text_before, text_after_) == text_before

\* process_document: the text handed to extract_fields
FieldsInput(text_before, text_after_) == text_after_

\* sum(r[key] for r in all_results)
RECURSIVE SumOf(_, _)
SumOf(rs, key) == IF Len(rs) = 0 THEN 0 ELSE rs[1][key] + SumOf(Tail(rs), key)

\* a percentage as the quotient num/den the float division computes; den = 0
\* stands for the ZeroDivisionError
Quotient(n, d) == [num |-> n, den |-> d]

Improvement_Unguarded(before, after) == Quotient((after - before) * 100, before)

\* improvement = 0; if before > 0: improvement = ((after - before) / before) * 100
Improvement(before, after) ==
    IF before > 0 THEN Quotient((after - before) * 100, before) ELSE Quotient(0, 1)

\* one block of the document-by-document breakdown; the f-string reads
\* result['fields']['dates'], ['amounts'] and ['emails']
ReportEntry(r) ==
    IF {"dates", "amounts", "emails"} \subseteq DOMAIN r.fields
      THEN [raised |-> "None",
            filename |-> r.filename,
            characters_before |-> r.characters_before,
            characters_after |-> r.characters_after,
            improvement |-> Improvement(r.characters_before, r.characters_after),
            dates_found |-> Len(r.fields.dates),
            amounts_found |-> Len(r.fields.amounts),
            emails_found |-> Len(r.fields.emails)]
      ELSE [raised |-> "KeyError",
            filename |-> r.filename,
            characters_before |-> r.characters_before,
            characters_after |-> r.characters_after,
            improvement |-> Improvement(r.characters_before, r.characters_after),
            dates_found |-> 0, amounts_found |-> 0, emails_found |-> 0]

\* the report generate_accuracy_report builds from all_results
BuildReport(rs) ==
    [total_before |-> SumOf(rs, "characters_before"),
     total_after |-> SumOf(rs, "characters_after"),
     improvement |-> Improvement(SumOf(rs, "characters_before"),
                                 SumOf(rs, "characters_after")),
     entries |-> [i \in 1..Len(rs) |-> ReportEntry(rs[i])]]

\* the first exception building the report raises, "None" when there is none
ReportRaises(rep) ==
    IF rep.improvement.den = 0 THEN "ZeroDivisionError"
    ELSE LET bad == {i \in 1..Len(rep.entries) :
                       rep.entries[i].improvement.den = 0
                         \/ rep.entries[i].raised # "None"}
         IN  IF bad = {} THEN "None"
             ELSE IF rep.entries[SetMin(bad)].improvement.den = 0
               THEN "ZeroDivisionError"
             ELSE rep.entries[SetMin(bad)].raised

\* os.listdir filtered by extension, in the directory's order
RECURSIVE Filter(_, _)
Filter(s, S) ==
    IF Len(s) = 0 THEN <<>>
    ELSE IF s[1] \in S THEN <<s[1]>> \o Filter(Tail(s), S) ELSE Filter(Tail(s), S)

Reverse(s) == [j \in 1..Len(s) |-> s[Len(s) + 1 - j]]

ImageNames(names) == {f \in names : IsImageName(f)}

\* every file named sample_invoice, image or not
StaleSamples_AnyFile(names) == {f \in names : Contains(f, SAMPLE_MARK)}

\* the files get_sample_images tries to remove
StaleSamples(names) == {f \in ImageNames(names) : Contains(f, SAMPLE_MARK)}

----------------------------------------------------------------------------
(* The state                                                               *)

VARIABLES
    HAS_PYTESSERACT,   \* import pytesseract succeeded
    HAS_EASYOCR,       \* import easyocr succeeded
    ocr_engine,        \* "pytesseract", "easyocr" or "None"
    ocr_reader,        \* "Reader" or "None"
    main_pc,           \* where main stands
    init_ret,          \* what initialize_ocr() returned: "unset", "True", "False"
    probe,             \* what the probes of initialize_ocr() answered
    exception,         \* the exception that ended main, "None" when none did
    dir_exists,        \* os.path.exists(INPUT_DIR)
    files,             \* the input directory: file name -> content
    out_dirs,          \* the output directories that exist
    out_images,        \* OUTPUT_IMG_DIR: file name -> image
    out_json,          \* OUTPUT_JSON_DIR: file name -> record
    report_file,       \* ACCURACY_REPORT: <<>> or <<the report>>
    report_printed,    \* the report on standard output: <<>> or <<the report>>
    image_files,       \* main's list of file names
    idx,               \* main's loop index i
    all_results,       \* main's list of result dicts
    doc_pc,            \* the stage process_document has reached
    results,           \* process_document's locals
    pil_image,
    cv_image,
    preprocessed,
    text_after,
    fields,
    saved,             \* what save_image and save_json returned
    trace,             \* the calls process_document has made for this document
    faults,            \* failures injected so far
    clock,             \* datetime.now()
    call               \* the last call of a function run on its own

vars ==
    << HAS_PYTESSERACT, HAS_EASYOCR, ocr_engine, ocr_reader, main_pc, init_ret,
       probe, exception, dir_exists, files, out_dirs, out_images, out_json, report_file,
       report_printed, image_files, idx, all_results, doc_pc, results, pil_image,
       cv_image, preprocessed, text_after, fields, saved, trace, faults, clock,
       call >>

engineVars == << HAS_PYTESSERACT, HAS_EASYOCR, ocr_engine, ocr_reader, probe >>
inputVars == << dir_exists, files >>
outputVars == << out_dirs, out_images, out_json, report_file, report_printed >>
loopVars == << image_files, idx, all_results >>
docVars ==
    << doc_pc, results, pil_image, cv_image, preprocessed, text_after, fields, saved,
       trace >>

EmptyDir == [f \in {} |-> Unreadable]
EmptyDict == [k \in {} |-> <<>>]
NoCall == [fn |-> "None"]
NotSaved == [image |-> "unset", json |-> "unset"]
NotProbed == [tesseract |-> "unprobed", reader |-> "unprobed"]
NoResults == InitialResults(PathJoin(INPUT_DIR, <<>>))

\* process_document is not running
DocIdle ==
    /\ doc_pc = "idle"
    /\ results = NoResults
    /\ pil_image = NoneImage
    /\ cv_image = NoneImage
    /\ preprocessed = NoneImage
    /\ text_after = <<>>
    /\ fields = EmptyDict
    /\ saved = NotSaved
    /\ trace = <<>>

DocReset ==
    /\ doc_pc' = "idle"
    /\ results' = NoResults
    /\ pil_image' = NoneImage
    /\ cv_image' = NoneImage
    /\ preprocessed' = NoneImage
    /\ text_after' = <<>>
    /\ fields' = EmptyDict
    /\ saved' = NotSaved
    /\ trace' = <<>>

\* the state main starts in, but for the globals and the input directory
StartOfMain ==
    /\ main_pc = "start"
    /\ init_ret = "unset"
    /\ exception = "None"
    /\ out_dirs = {}
    /\ out_images = EmptyDir
    /\ out_json = EmptyDir
    /\ report_file = <<>>
    /\ report_printed = <<>>
    /\ image_files = <<>>
    /\ idx = 0
    /\ all_results = <<>>
    /\ DocIdle
    /\ faults = 0
    /\ clock = 0
    /\ call = NoCall

Init ==
    /\ HAS_PYTESSERACT \in BOOLEAN
    /\ HAS_EASYOCR \in BOOLEAN
    /\ ocr_engine = "None"
    /\ ocr_reader = "None"
    /\ probe = NotProbed
    /\ \/ dir_exists = FALSE /\ files = EmptyDir
       \/ dir_exists = TRUE /\ \E S \in InputDirs : files = [f \in S |-> UserContent(f)]
    /\ StartOfMain

\* a failure the environment may inject while the budget lasts
MayFail(b) == b = FALSE \/ faults < MaxFaults
Count(b) == IF b THEN 1 ELSE 0

\* an exception nothing catches ends main
Crash(e) ==
    /\ main_pc' = "crashed"
    /\ exception' = e

----------------------------------------------------------------------------
(* main                                                                    *)

\* if not initialize_ocr(): return.  configure_pytesseract() is called when
\* pytesseract was imported, easyocr.Reader when easyocr was imported and
\* Tesseract was not taken; probe keeps what each answered
InitializeOcr ==
    /\ main_pc = "start"
    /\ \E platform \in {"Windows", "Darwin", "Linux"},
          path_exists \in BOOLEAN, lookup_found \in BOOLEAN, reader_built \in BOOLEAN :
         LET found == configure_pytesseract(platform, path_exists, lookup_found)
             r == initialize_ocr(HAS_PYTESSERACT, HAS_EASYOCR, found, reader_built,
                                 ocr_engine, ocr_reader)
         IN  /\ ocr_engine' = r.ocr_engine
             /\ ocr_reader' = r.ocr_reader
             /\ probe' = [tesseract |-> IF ~HAS_PYTESSERACT THEN "unprobed"
                                        ELSE IF found THEN "found" ELSE "missing",
                          reader |-> IF ~HAS_EASYOCR \/ (HAS_PYTESSERACT /\ found)
                                       THEN "unprobed"
                                     ELSE IF reader_built THEN "built" ELSE "failed"]
             /\ init_ret' = IF r.ret THEN "True" ELSE "False"
             /\ main_pc' = AfterInitialize(r.ret)
    /\ UNCHANGED << HAS_PYTESSERACT, HAS_EASYOCR, exception, inputVars, outputVars,
                    loopVars, docVars, faults, clock, call >>

\* ensure_directories_exist(): Path.mkdir for both output directories; an
\* OSError is not caught
EnsureDirectoriesExist ==
    /\ main_pc = "dirs"
    /\ \E made \in {{}, {OUTPUT_IMG_DIR}, {OUTPUT_IMG_DIR, OUTPUT_JSON_DIR}} :
         /\ MayFail(made # {OUTPUT_IMG_DIR, OUTPUT_JSON_DIR})
         /\ out_dirs' = out_dirs \cup made
         /\ faults' = faults + Count(made # {OUTPUT_IMG_DIR, OUTPUT_JSON_DIR})
         /\ IF made = {OUTPUT_IMG_DIR, OUTPUT_JSON_DIR}
              THEN main_pc' = "samples" /\ UNCHANGED exception
              ELSE Crash("OSError")
    /\ UNCHANGED << engineVars, init_ret, inputVars, out_images, out_json, report_file,
                    report_printed, loopVars, docVars, clock, call >>

\* get_sample_images(): the input directory is made when missing, the image
\* files named sample_invoice are removed (a removal that fails is passed
\* over), then each sample is drawn and saved (a sample that fails is skipped:
\* here saving fails from some sample on); any other exception is reported and
\* ends the function
GetSampleImages ==
    /\ main_pc = "samples"
    /\ \E makedirs_fails \in BOOLEAN, kept \in SUBSET StaleSamples(DOMAIN files),
          created \in {1..k : k \in 0..NUM_SAMPLES} :
         LET failed == Count(makedirs_fails) + Cardinality(kept)
             left == [f \in (DOMAIN files \ (StaleSamples(DOMAIN files) \ kept)) |-> files[f]]
             drawn == [f \in {SampleName(i) : i \in created} |->
                          SampleImage(CHOOSE i \in created : SampleName(i) = f)]
         IN  /\ makedirs_fails => ~dir_exists
             /\ faults + failed <= MaxFaults
             /\ faults' = faults + failed
             /\ IF makedirs_fails
                  THEN UNCHANGED inputVars
                  ELSE /\ dir_exists' = TRUE
                       /\ files' = drawn @@ left
                       /\ Cardinality(ImageNames(DOMAIN files')) <= MaxDocs
    /\ main_pc' = "list"
    /\ UNCHANGED << engineVars, init_ret, exception, outputVars, loopVars, docVars,
                    clock, call >>

\* the listing of the input directory; main returns when the directory is
\* missing or holds no image
ListImages ==
    /\ main_pc = "list"
    /\ \E reversed \in BOOLEAN :
         LET listing == Filter(IF reversed THEN Reverse(DirOrder) ELSE DirOrder,
                               ImageNames(DOMAIN files))
         IN  IF ~dir_exists \/ listing = <<>>
               THEN /\ main_pc' = "returned"
                    /\ UNCHANGED loopVars
               ELSE /\ main_pc' = "loop"
                    /\ image_files' = listing
                    /\ idx' = 1
                    /\ all_results' = <<>>
    /\ UNCHANGED << engineVars, init_ret, exception, inputVars, outputVars, docVars,
                    faults, clock, call >>

----------------------------------------------------------------------------
(* process_document, one action per stage; main calls it with the path of  *)
(* image_files[idx] and appends what it returns                            *)

InLoop == main_pc = "loop" /\ idx <= Len(image_files)

image_path == PathJoin(INPUT_DIR, image_files[idx])

\* main's loop without the append
ReturnToMain_NoAppend(result) ==
    /\ all_results' = all_results
    /\ idx' = idx + 1
    /\ DocReset

\* main: all_results.append(result), and on to the next file
ReturnToMain(result) ==
    /\ all_results' = Append(all_results, result)
    /\ idx' = idx + 1
    /\ DocReset

\* results = {...}; pil_image = load_image(image_path); if pil_image is None:
\* return results; cv_image = cv2.imread(image_path)
LoadDocument ==
    /\ InLoop
    /\ doc_pc = "idle"
    /\ LET content == files[Basename(image_path)]
           loaded == load_image(content)
       IN  IF loaded.none
             THEN /\ ReturnToMain(InitialResults(image_path))
                  /\ UNCHANGED image_files
             ELSE /\ results' = InitialResults(image_path)
                  /\ pil_image' = loaded
                  /\ cv_image' = imread(content)
                  /\ doc_pc' = "Loaded"
                  /\ trace' = <<"load_image", "imread">>
                  /\ UNCHANGED << preprocessed, text_after, fields, saved, loopVars >>
    /\ UNCHANGED << engineVars, main_pc, init_ret, exception, inputVars, outputVars,
                    faults, clock, call >>

\* text_before = extract_text(pil_image) and the two entries of results
OcrRaw ==
    /\ InLoop
    /\ doc_pc = "Loaded"
    /\ \E engine_throws \in BOOLEAN :
         LET r == extract_text(ocr_engine, ocr_reader, pil_image, engine_throws) IN
         /\ MayFail(engine_throws)
         /\ faults' = faults + Count(engine_throws)
         /\ IF r.raised # "None"
              THEN /\ Crash(r.raised)
                   /\ UNCHANGED << results, doc_pc >>
              ELSE /\ results' = [results EXCEPT !.text_before_preprocessing = r.value,
                                                 !.characters_before = Len(r.value)]
                   /\ doc_pc' = "OcrRaw"
                   /\ UNCHANGED << main_pc, exception >>
    /\ trace' = Append(trace, "extract_text")
    /\ UNCHANGED << engineVars, init_ret, inputVars, outputVars, loopVars, pil_image,
                    cv_image, preprocessed, text_after, fields, saved, clock, call >>

\* preprocessed = preprocess_image(cv_image)
Preprocess ==
    /\ InLoop
    /\ doc_pc = "OcrRaw"
    /\ LET r == preprocess_image(cv_image) IN
         IF r.raised # "None"
           THEN /\ Crash(r.raised)
                /\ UNCHANGED << preprocessed, doc_pc >>
           ELSE /\ preprocessed' = r.value
                /\ doc_pc' = "Preprocessed"
                /\ UNCHANGED << main_pc, exception >>
    /\ trace' = Append(trace, "preprocess_image")
    /\ UNCHANGED << engineVars, init_ret, inputVars, outputVars, loopVars, results,
                    pil_image, cv_image, text_after, fields, saved, faults, clock,
                    call >>

\* pil_preprocessed = Image.fromarray(preprocessed);
\* text_after = extract_text(pil_preprocessed) and the two entries of results
OcrClean ==
    /\ InLoop
    /\ doc_pc = "Preprocessed"
    /\ \E engine_throws \in BOOLEAN :
         LET r == extract_text(ocr_engine, ocr_reader, preprocessed, engine_throws) IN
         /\ MayFail(engine_throws)
         /\ faults' = faults + Count(engine_throws)
         /\ IF r.raised # "None"
              THEN /\ Crash(r.raised)
                   /\ UNCHANGED << results, text_after, doc_pc >>
              ELSE /\ text_after' = r.value
                   /\ results' = [results EXCEPT !.text_after_preprocessing = r.value,
                                                 !.characters_after = Len(r.value)]
                   /\ doc_pc' = "OcrClean"
                   /\ UNCHANGED << main_pc, exception >>
    /\ trace' = Append(trace, "extract_text")
    /\ UNCHANGED << engineVars, init_ret, inputVars, outputVars, loopVars, pil_image,
                    cv_image, preprocessed, fields, saved, clock, call >>

\* fields = extract_fields(text_after); results['fields'] = fields
ExtractFields ==
    /\ InLoop
    /\ doc_pc = "OcrClean"
    /\ \E f \in FieldsOf(FieldsInput(results.text_before_preprocessing, text_after)) :
         /\ fields' = f
         /\ results' = [results EXCEPT !.fields = f]
    /\ doc_pc' = "FieldsExtracted"
    /\ trace' = Append(trace, "extract_fields")
    /\ UNCHANGED << engineVars, main_pc, init_ret, exception, inputVars, outputVars,
                    loopVars, pil_image, cv_image, preprocessed, text_after, saved,
                    faults, clock, call >>

\* save_image(preprocessed, image_path, Config.OUTPUT_IMG_DIR)
SaveImage ==
    /\ InLoop
    /\ doc_pc = "FieldsExtracted"
    /\ \E write_fails \in BOOLEAN :
         LET r == save_image(preprocessed, image_path, out_images, write_fails) IN
         /\ MayFail(write_fails)
         /\ faults' = faults + Count(write_fails)
         /\ out_images' = r.output
         /\ IF r.raised # "None"
              THEN /\ Crash(r.raised)
                   /\ UNCHANGED << saved, doc_pc >>
              ELSE /\ saved' = [saved EXCEPT !.image = r.ret]
                   /\ doc_pc' = "ImageSaved"
                   /\ UNCHANGED << main_pc, exception >>
    /\ trace' = Append(trace, "save_image")
    /\ UNCHANGED << engineVars, init_ret, inputVars, out_dirs, out_json, report_file,
                    report_printed, loopVars, results, pil_image, cv_image,
                    preprocessed, text_after, fields, clock, call >>

\* json_data = {...}; save_json(image_path, json_data, Config.OUTPUT_JSON_DIR)
SaveJson ==
    /\ InLoop
    /\ doc_pc = "ImageSaved"
    /\ \E write_fails \in BOOLEAN :
         LET r == save_json(image_path, JsonData(results, text_after, fields, clock),
                            out_json, write_fails) IN
         /\ MayFail(write_fails)
         /\ faults' = faults + Count(write_fails)
         /\ out_json' = r.output
         /\ IF r.raised # "None"
              THEN /\ Crash(r.raised)
                   /\ UNCHANGED << saved, doc_pc >>
              ELSE /\ saved' = [saved EXCEPT !.json = r.ret]
                   /\ doc_pc' = "Persisted"
                   /\ UNCHANGED << main_pc, exception >>
    /\ clock' = clock + 1
    /\ trace' = Append(trace, "save_json")
    /\ UNCHANGED << engineVars, init_ret, inputVars, out_dirs, out_images, report_file,
                    report_printed, loopVars, results, pil_image, cv_image,
                    preprocessed, text_after, fields, call >>

\* return results
ReturnResults ==
    /\ InLoop
    /\ doc_pc = "Persisted"
    /\ ReturnToMain(results)
    /\ UNCHANGED << engineVars, main_pc, init_ret, exception, inputVars, outputVars,
                    image_files, faults, clock, call >>

----------------------------------------------------------------------------
(* generate_accuracy_report(all_results), called when the loop is over     *)

GenerateAccuracyReport ==
    /\ main_pc = "loop"
    /\ idx > Len(image_files)
    /\ LET rep == BuildReport(all_results) IN
         IF ReportRaises(rep) # "None"
           THEN /\ Crash(ReportRaises(rep))
                /\ UNCHANGED << report_file, report_printed, faults >>
           ELSE /\ \E write_fails \in BOOLEAN :
                     /\ MayFail(write_fails)
                     /\ faults' = faults + Count(write_fails)
                     /\ report_file' = IF write_fails THEN report_file ELSE <<rep>>
                /\ report_printed' = <<rep>>
                /\ main_pc' = "done"
                /\ UNCHANGED exception
    /\ clock' = clock + 1
    /\ UNCHANGED << engineVars, init_ret, inputVars, out_dirs, out_images, out_json,
                    loopVars, docVars, call >>

Next ==
    \/ InitializeOcr
    \/ EnsureDirectoriesExist
    \/ GetSampleImages
    \/ ListImages
    \/ LoadDocument
    \/ OcrRaw
    \/ Preprocess
    \/ OcrClean
    \/ ExtractFields
    \/ SaveImage
    \/ SaveJson
    \/ ReturnResults
    \/ GenerateAccuracyReport

Spec == Init /\ [][Next]_vars

----------------------------------------------------------------------------
(* extract_text run on its own: any engine state the module can be in, any *)
(* image, the engine's call raising or not                                 *)

PipelineIdle ==
    /\ main_pc = "unit"
    /\ init_ret = "unset"
    /\ exception = "None"
    /\ dir_exists = FALSE
    /\ files = EmptyDir
    /\ out_dirs = {}
    /\ out_images = EmptyDir
    /\ out_json = EmptyDir
    /\ report_file = <<>>
    /\ report_printed = <<>>
    /\ image_files = <<>>
    /\ idx = 0
    /\ all_results = <<>>
    /\ DocIdle
    /\ faults = 0
    /\ clock = 0

pipelineVars ==
    << main_pc, init_ret, exception, inputVars, outputVars, loopVars, docVars, faults,
       clock >>

\* the images extract_text is handed: as loaded and as preprocessed
TextImages ==
    {ImageOf(c) : c \in WorldImages} \cup {[ImageOf(c) EXCEPT !.pre = TRUE] : c \in WorldImages}

InitExtractText ==
    /\ HAS_PYTESSERACT \in BOOLEAN
    /\ HAS_EASYOCR \in BOOLEAN
    /\ ocr_engine \in {"None", "pytesseract", "easyocr"}
    /\ ocr_engine = "pytesseract" => HAS_PYTESSERACT
    /\ ocr_engine = "easyocr" => HAS_EASYOCR
    /\ ocr_reader = IF ocr_engine = "easyocr" THEN "Reader" ELSE "None"
    /\ probe = NotProbed
    /\ PipelineIdle
    /\ \E image \in TextImages, engine_throws \in BOOLEAN :
         call = [fn |-> "extract_text", image |-> image, engine_throws |-> engine_throws,
                 returned |-> FALSE, ret |-> [raised |-> "None", value |-> <<>>]]

ExtractTextCall ==
    /\ call.fn = "extract_text"
    /\ ~call.returned
    /\ call' = [call EXCEPT !.returned = TRUE,
                            !.ret = extract_text(ocr_engine, ocr_reader, call.image,
                                                 call.engine_throws)]
    /\ UNCHANGED << engineVars, pipelineVars >>

SpecExtractText == InitExtractText /\ [][ExtractTextCall]_vars

----------------------------------------------------------------------------
(* extract_fields run on its own, over the texts made of a few fragments   *)

\* the most fragments in a text
MaxTokens == 3

Tokens ==
    { <<"1","/","2","/","2","4">>,
      <<"2","0","2","4","-","1","-","2">>,
      <<"J","a","n"," ","2",","," ","2","0","2","4">>,
      <<" ">>,
      <<"$","5">>,
      <<"5","$">>,
      <<"U","S","D"," ","7">>,
      <<"a","@","b",".","c","o">> }

RECURSIVE TextsOf(_)
TextsOf(n) ==
    IF n = 0 THEN {<<>>}
    ELSE TextsOf(n - 1) \cup {t \o k : t \in TextsOf(n - 1), k \in Tokens}

\* a line as an invoice carries it: a date, an amount and an address
ExampleText ==
    <<"I","n","v","o","i","c","e"," ","D","a","t","e",":"," ","1","5","/","0",
    "1","/","2","0","2","4"," ","A","m","o","u","n","t",":"," ","$","5","0",
    "0",".","5","0"," ","E","m","a","i","l",":"," ","a","@","b",".","c","o",
    "m">>

InitExtractFields ==
    /\ HAS_PYTESSERACT = FALSE
    /\ HAS_EASYOCR = FALSE
    /\ ocr_engine = "None"
    /\ ocr_reader = "None"
    /\ probe = NotProbed
    /\ PipelineIdle
    /\ \E text \in TextsOf(MaxTokens) \cup {ExampleText} :
         call = [fn |-> "extract_fields", text |-> text, returned |-> FALSE,
                 ret |-> [dates |-> <<>>, amounts |-> <<>>, emails |-> <<>>]]

ExtractFieldsCall ==
    /\ call.fn = "extract_fields"
    /\ ~call.returned
    /\ \E f \in extract_fields(call.text) :
         call' = [call EXCEPT !.returned = TRUE, !.ret = f]
    /\ UNCHANGED << engineVars, pipelineVars >>

SpecExtractFields == InitExtractFields /\ [][ExtractFieldsCall]_vars

----------------------------------------------------------------------------
(* preprocess_image on the pixels.  A raster is a record of its shape and  *)
(* its pixels: <<b, g, r>> per pixel with 3 channels, one value with 1.    *)

THRESHOLD_VALUE == 127
MAX_VALUE == 255
MORPH_KERNEL_SIZE == <<3, 3>>
BLUR_KERNEL_SIZE == <<3, 3>>

Pixels(img) == (1..img.rows) \X (1..img.cols)

\* the array with the pixels px, every one computed when the array is made
Array(img, px) == IF px = px THEN [img EXCEPT !.px = px] ELSE img

\* cv2.cvtColor(cv_image, cv2.COLOR_BGR2GRAY): the 8-bit fixed-point luma
cvtColor(img) ==
    Array([img EXCEPT !.channels = 1],
          [q \in Pixels(img) |->
             (img.px[q][1] * 1868 + img.px[q][2] * 9617 + img.px[q][3] * 4899 + 8192)
                 \div 16384])

\* BORDER_REFLECT_101 for a kernel of radius 1
Reflect101(i, n) ==
    IF n = 1 THEN 1 ELSE IF i < 1 THEN 2 - i ELSE IF i > n THEN 2 * n - i ELSE i

\* the weights of the Gaussian kernel of size 3 with sigma 0: 1 2 1, over 4
GaussWeight(d) == IF d = 0 THEN 2 ELSE 1

\* cv2.GaussianBlur(gray, ksize, 0), rounded to 8 bits
GaussianBlur(img, ksize) ==
    LET rad == (ksize[1] - 1) \div 2
        offs == (-rad..rad) \X (-rad..rad)
        tap(q, o) == GaussWeight(o[1]) * GaussWeight(o[2])
                       * img.px[<<Reflect101(q[1] + o[1], img.rows),
                                  Reflect101(q[2] + o[2], img.cols)>>]
        RECURSIVE sum(_, _)
        sum(q, O) == IF O = {} THEN 0
                     ELSE LET o == CHOOSE x \in O : TRUE IN tap(q, o) + sum(q, O \ {o})
    IN  Array(img, [q \in Pixels(img) |-> (sum(q, offs) + 8) \div 16])

\* the threshold cv2.THRESH_OTSU computes: the first level that makes the
\* between-class variance greatest, 0 when no level splits the pixels
OtsuThreshold(img) ==
    LET levels == {img.px[q] : q \in Pixels(img)}
        RECURSIVE total(_)
        total(Q) == IF Q = {} THEN 0
                    ELSE LET q == CHOOSE x \in Q : TRUE IN img.px[q] + total(Q \ {q})
        low(t) == {q \in Pixels(img) : img.px[q] <= t}
        high(t) == Pixels(img) \ low(t)
        splits == {t \in levels : high(t) # {}}
        n1(t) == Cardinality(low(t))
        n2(t) == Cardinality(high(t))
        d(t) == total(low(t)) * n2(t) - total(high(t)) * n1(t)
        \* the variance at t is greater than at u
        greater(t, u) == d(t) * d(t) * n1(u) * n2(u) > d(u) * d(u) * n1(t) * n2(t)
        best == {t \in splits : \A u \in splits : ~greater(u, t)}
    IN  IF splits = {} THEN 0 ELSE SetMin(best)

\* cv2.threshold(src, thresh, maxval, THRESH_TRUNC): the values above the
\* threshold cut down to it
threshold_Trunc(img, maxval) ==
    LET t == OtsuThreshold(img) IN
    Array(img, [q \in Pixels(img) |-> IF img.px[q] > t THEN t ELSE img.px[q]])

\* cv2.threshold(src, 0, maxval, THRESH_BINARY + THRESH_OTSU)
threshold(img, maxval) ==
    LET t == OtsuThreshold(img) IN
    Array(img, [q \in Pixels(img) |-> IF img.px[q] > t THEN maxval ELSE 0])

\* cv2.getStructuringElement(cv2.MORPH_RECT, ksize): the offsets the element
\* covers around its anchor, the centre ksize // 2
getStructuringElement(ksize) ==
    {<<i - ksize[2] \div 2, j - ksize[1] \div 2>> : i \in 0..(ksize[2] - 1), j \in 0..(ksize[1] - 1)}

\* the pixels of the image under the element put at q (the border counts for
\* nothing in a dilation or an erosion)
Under(img, kernel, q) ==
    {img.px[<<q[1] + o[1], q[2] + o[2]>>] :
        o \in {x \in kernel : <<q[1] + x[1], q[2] + x[2]>> \in Pixels(img)}}

dilate(img, kernel) ==
    Array(img, [q \in Pixels(img) |-> SetMax(Under(img, kernel, q))])

erode(img, kernel) ==
    Array(img, [q \in Pixels(img) |-> SetMin(Under(img, kernel, q))])

\* cv2.morphologyEx(src, op, kernel, iterations=1)
morphologyEx(img, op, kernel) ==
    IF op = "MORPH_CLOSE" THEN erode(dilate(img, kernel), kernel)
    ELSE dilate(erode(img, kernel), kernel)

\* preprocess_image(cv_image) for a 3-channel raster
preprocess_image_pixels(img) ==
    LET gray == cvtColor(img)
        blurred == GaussianBlur(gray, BLUR_KERNEL_SIZE)
        binary == threshold(blurred, MAX_VALUE)
        kernel == getStructuringElement(MORPH_KERNEL_SIZE)
        closed == morphologyEx(binary, "MORPH_CLOSE", kernel)
        processed == morphologyEx(closed, "MORPH_OPEN", kernel)
        dilate_kernel == getStructuringElement(<<2, 2>>)
    IN  dilate(processed, dilate_kernel)

\* the most pixels in a raster
MaxPixels == 4

\* the colours of a pixel as cv2.imread gives them: B, G, R
Colours == {<<0, 0, 0>>, <<255, 255, 255>>, <<60, 60, 60>>, <<10, 200, 100>>}

\* the shapes <<rows, cols>> of the rasters
Shapes == {d \in (1..MaxPixels) \X (1..MaxPixels) : d[1] * d[2] <= MaxPixels}

Rasters ==
    UNION {{[channels |-> 3, rows |-> d[1], cols |-> d[2], px |-> f] :
              f \in [(1..d[1]) \X (1..d[2]) -> Colours]} : d \in Shapes}

InitPreprocess ==
    /\ HAS_PYTESSERACT = FALSE
    /\ HAS_EASYOCR = FALSE
    /\ ocr_engine = "None"
    /\ ocr_reader = "None"
    /\ probe = NotProbed
    /\ PipelineIdle
    /\ \E img \in Rasters :
         call = [fn |-> "preprocess_image", image |-> img, returned |-> FALSE,
                 ret |-> img]

PreprocessCall ==
    /\ call.fn = "preprocess_image"
    /\ ~call.returned
    /\ call' = [call EXCEPT !.returned = TRUE, !.ret = preprocess_image_pixels(call.image)]
    /\ UNCHANGED << engineVars, pipelineVars >>

SpecPreprocess == InitPreprocess /\ [][PreprocessCall]_vars

----------------------------------------------------------------------------
(* Properties                                                              *)

\* main's loop has handed every listed file to process_document
LoopOver == image_files # <<>> /\ idx > Len(image_files)

\* the listed files load_image fails on
FailedLoads == {i \in 1..Len(image_files) : ~files[image_files[i]].pil}

\* C1: in a batch where a document fails to load, the accuracy report is still
\* produced once the loop is over, with one entry per listed document, an
\* all-zero entry for the failed document, and totals that are the sums over
\* all documents.  The code does not do this: the failed document's record has
\* fields = {}, and the breakdown's result['fields']['dates'] raises KeyError
\* before anything is written or printed.
C1_ReportCoversFailedLoad ==
    (LoopOver /\ main_pc # "loop" /\ FailedLoads # {}) =>
        /\ main_pc = "done"
        /\ report_printed # <<>>
        /\ LET rep == report_printed[1] IN
             /\ Len(rep.entries) = Len(image_files)
             /\ \A i \in 1..Len(image_files) : rep.entries[i].filename = image_files[i]
             /\ \A i \in FailedLoads :
                  /\ rep.entries[i].characters_before = 0
                  /\ rep.entries[i].characters_after = 0
                  /\ rep.entries[i].dates_found = 0
                  /\ rep.entries[i].amounts_found = 0
                  /\ rep.entries[i].emails_found = 0
             /\ rep.total_before = SumOf(all_results, "characters_before")
             /\ rep.total_after = SumOf(all_results, "characters_after")

\* C2: no failure inside the processing of one document ends the batch: main
\* is never ended by an exception while documents remain, and when main is
\* through, all_results holds one record per listed file.  The code does not
\* do this: cv2.imread returns None for a file PIL opens, and
\* preprocess_image's cv2.error is caught nowhere.
C2_StageFailureKeepsBatch ==
    /\ (main_pc = "crashed" /\ image_files # <<>>) => idx > Len(image_files)
    /\ (main_pc \in {"done", "crashed"} /\ LoopOver) =>
          (/\ Len(all_results) = Len(image_files)
           /\ \A i \in 1..Len(image_files) : all_results[i].filename = image_files[i])

\* C3: when load_image fails for the document main hands over, the step of
\* process_document returns at once the record with the document's filename,
\* zero counts, empty texts and empty fields; main appends it and goes on to
\* the next document.
C3_LoadFailureRecord ==
    [][(InLoop /\ doc_pc = "idle" /\ ~files[image_files[idx]].pil) =>
          /\ all_results' = Append(all_results,
                                   [filename |-> image_files[idx],
                                    text_before_preprocessing |-> <<>>,
                                    text_after_preprocessing |-> <<>>,
                                    characters_before |-> 0,
                                    characters_after |-> 0,
                                    fields |-> EmptyDict])
          /\ idx' = idx + 1
          /\ doc_pc' = "idle"
          /\ trace' = <<>>
          /\ main_pc' = "loop"
          /\ UNCHANGED << image_files, outputVars, exception >>]_vars

\* a document failed to load, its record was appended, the next one is loaded
C3_Witness ==
    /\ main_pc = "loop"
    /\ idx >= 2
    /\ idx <= Len(image_files)
    /\ ~files[image_files[idx - 1]].pil
    /\ Len(all_results) = idx - 1
    /\ all_results[idx - 1].filename = image_files[idx - 1]
    /\ all_results[idx - 1].fields = EmptyDict
    /\ doc_pc = "Loaded"

\* C4: the two writes are independent: save_image returns whether or not its
\* write failed, save_json is then attempted whatever save_image returned and
\* leaves the image directory alone, and whatever the two returned
\* process_document returns its record, which main appends before it goes on
\* to the next document.
C4_WritesIndependent ==
    [][/\ doc_pc = "FieldsExtracted" =>
            /\ doc_pc' = "ImageSaved"
            /\ saved'.image \in {"None", "path"}
            /\ main_pc' = "loop"
            /\ out_json' = out_json
       /\ doc_pc = "ImageSaved" =>
            /\ doc_pc' = "Persisted"
            /\ trace' = Append(trace, "save_json")
            /\ saved'.json \in {"None", "path"}
            /\ saved'.image = saved.image
            /\ main_pc' = "loop"
            /\ out_images' = out_images
       /\ doc_pc = "Persisted" =>
            /\ all_results' = Append(all_results, results)
            /\ idx' = idx + 1
            /\ doc_pc' = "idle"
            /\ main_pc' = "loop"]_vars

\* both writes of the first document failed, its record was appended and the
\* second document is being processed
C4_Witness ==
    /\ main_pc = "loop"
    /\ idx = 2
    /\ doc_pc = "Loaded"
    /\ Len(all_results) = 1
    /\ all_results[1].fields # EmptyDict
    /\ out_images = EmptyDir
    /\ out_json = EmptyDir
    /\ faults = 2

IsString(v) == DOMAIN v = 1..Len(v) /\ \A j \in DOMAIN v : v[j] \in STRING

\* C5: extract_text never raises: whatever the engine selected and whether or
\* not the engine's call throws, it returns a string, and the string is empty
\* when the call threw or no engine was initialized.
C5_ExtractTextNeverRaises ==
    (call.fn = "extract_text" /\ call.returned) =>
        /\ call.ret.raised = "None"
        /\ IsString(call.ret.value)
        /\ (call.engine_throws \/ ocr_engine = "None") => call.ret.value = <<>>

\* the engine threw on an image that has text to read, and extract_text
\* returned
C5_Witness ==
    /\ call.fn = "extract_text"
    /\ call.returned
    /\ call.engine_throws
    /\ ocr_engine = "easyocr"
    /\ ReadLines(call.image) # <<>>
    /\ call.ret.value = <<>>

\* what initialize_ocr() had to select, from the imports and the probes
TesseractUsable == HAS_PYTESSERACT /\ probe.tesseract = "found"
EasyOcrUsable == HAS_EASYOCR /\ probe.reader = "built"

\* C6: initialize_ocr selects one engine: it returned True exactly when
\* ocr_engine is 'pytesseract' or 'easyocr', Tesseract when pytesseract is
\* imported and its binary found, otherwise EasyOCR when it is imported and
\* its Reader was built; when it returned False, ocr_engine is still None; and
\* no step changes ocr_engine or ocr_reader once an engine is selected.
C6_OneEngineSelected ==
    /\ [](init_ret = "True" <=> ocr_engine \in {"pytesseract", "easyocr"})
    /\ [](init_ret = "False" => ocr_engine = "None" /\ ocr_reader = "None")
    /\ [](init_ret # "unset" =>
            ocr_engine = IF TesseractUsable THEN "pytesseract"
                         ELSE IF EasyOcrUsable THEN "easyocr" ELSE "None")
    /\ [](ocr_engine = "easyocr" => ocr_reader = "Reader")
    /\ [][ocr_engine # "None" => UNCHANGED << ocr_engine, ocr_reader >>]_vars

\* Tesseract's binary was missing, EasyOCR was taken, and the run went through
\* to the report with it
C6_Witness ==
    /\ main_pc = "done"
    /\ init_ret = "True"
    /\ HAS_PYTESSERACT
    /\ probe.tesseract = "missing"
    /\ ocr_engine = "easyocr"
    /\ Len(all_results) >= 2

\* C7: when initialize_ocr returns False main returns at once: the step that
\* delivers False, and every state after it, has no output directory, no
\* sample drawn or removed (the input directory is as it was), no call of
\* process_document and no report.
C7_NoEngineAborts ==
    /\ [](init_ret = "False" =>
            /\ main_pc = "returned"
            /\ out_dirs = {}
            /\ out_images = EmptyDir /\ out_json = EmptyDir
            /\ report_file = <<>> /\ report_printed = <<>>
            /\ all_results = <<>> /\ image_files = <<>>
            /\ DocIdle)
    /\ [][init_ret' = "False" =>
            UNCHANGED << inputVars, outputVars, loopVars, docVars >>]_vars

\* both imports succeeded, neither engine came up, and the stale sample of the
\* input directory is still there
C7_Witness ==
    /\ init_ret = "False"
    /\ main_pc = "returned"
    /\ probe = [tesseract |-> "missing", reader |-> "failed"]
    /\ dir_exists
    /\ OLD_SAMPLE_PNG \in DOMAIN files

\* the calls process_document makes for a document that loads, in order
StageCalls ==
    << "load_image", "imread", "extract_text", "preprocess_image", "extract_text",
       "extract_fields", "save_image", "save_json" >>

\* the stages of a document in order; the two writes make up Persisted, and
\* "idle" stands before Loaded and for Done
StageOrder ==
    << "idle", "Loaded", "OcrRaw", "Preprocessed", "OcrClean", "FieldsExtracted",
       "ImageSaved", "Persisted" >>

StageNumber(pc) == CHOOSE n \in 1..Len(StageOrder) : StageOrder[n] = pc

IsPrefix(s, t) == Len(s) <= Len(t) /\ SubSeq(t, 1, Len(s)) = s

IsImprovement(q, before, after) ==
    /\ q.den # 0
    /\ IF before > 0 THEN q.num * before = (after - before) * 100 * q.den
       ELSE q.num = 0

\* C9: the improvement of the report is (after - before) / before * 100 when
\* before > 0 and exactly 0 when before = 0, for each document from its own
\* counts and for the aggregate from the summed counts, and no
\* ZeroDivisionError ends main.
C9_ImprovementPercent ==
    /\ exception # "ZeroDivisionError"
    /\ report_printed # <<>> =>
         LET rep == report_printed[1] IN
           /\ IsImprovement(rep.improvement, SumOf(all_results, "characters_before"),
                            SumOf(all_results, "characters_after"))
           /\ Len(rep.entries) = Len(all_results)
           /\ \A i \in 1..Len(all_results) :
                IsImprovement(rep.entries[i].improvement,
                              all_results[i].characters_before,
                              all_results[i].characters_after)

\* a report with a document that read nothing before preprocessing and one
\* that read more after than before
C9_Witness ==
    /\ report_printed # <<>>
    /\ \E i, j \in 1..Len(all_results) :
         /\ all_results[i].characters_before = 0
         /\ all_results[i].characters_after > 0
         /\ report_printed[1].entries[i].improvement.num = 0
         /\ all_results[j].characters_before > 0
         /\ all_results[j].characters_after > all_results[j].characters_before
         /\ report_printed[1].entries[j].improvement.num > 0

NoDuplicates(l) == \A i, j \in 1..Len(l) : l[i] = l[j] => i = j

\* C10: for every text, the dates and the amounts extract_fields returns hold
\* no string twice, and hold every distinct matched literal (once).
C10_DatesAmountsDistinct ==
    (call.fn = "extract_fields" /\ call.returned) =>
        /\ NoDuplicates(call.ret.dates)
        /\ Range(call.ret.dates) = Range(DateMatches(call.text))
        /\ NoDuplicates(call.ret.amounts)
        /\ Range(call.ret.amounts) = Range(AmountMatches(call.text))

\* a date occurs twice in the text and is returned once
C10_Witness ==
    /\ call.fn = "extract_fields"
    /\ call.returned
    /\ Len(DateMatches(call.text)) = 2
    /\ Len(call.ret.dates) = 1

\* the position after the email match that starts at p, 0 when none does
EmailEnd(text, p) == MatchEnd(EMAIL_PATTERN, 1, text, p, FALSE)

\* the j-th smallest member of a set of positions
Nth(T, j) == CHOOSE p \in T : Cardinality({q \in T : q <= p}) = j

\* C11: for every text, the emails extract_fields returns are the email
\* matches of the text, one entry per match, in the order of their positions
\* and with nothing removed: a position starts a match of the list exactly
\* when the pattern matches there and no earlier match of the list runs over
\* it, and the j-th entry is the text of the j-th such match.
C11_EmailsInOrderOfAppearance ==
    (call.fn = "extract_fields" /\ call.returned) =>
        LET text == call.text
            ends == [p \in 1..Len(text) |-> EmailEnd(text, p)]
            starts == {p \in 1..Len(text) : ends[p] # 0}
        IN  \E T \in SUBSET starts :
              /\ \A p \in starts : p \in T <=> \A q \in T : q < p => ends[q] <= p
              /\ Len(call.ret.emails) = Cardinality(T)
              /\ \A j \in 1..Cardinality(T) :
                   call.ret.emails[j] = SubSeq(text, Nth(T, j), ends[Nth(T, j)] - 1)

\* an address occurs twice in the text and twice in the list
C11_Witness ==
    /\ call.fn = "extract_fields"
    /\ call.returned
    /\ Len(call.ret.emails) = 2
    /\ call.ret.emails[1] = call.ret.emails[2]

\* C13: for the text "Invoice Date: 15/01/2024 Amount: $500.50 Email: a@b.com"
\* extract_fields yields dates that hold "15/01/2024", amounts that hold
\* "$500.50" and emails equal to the one-element list ["a@b.com"].
C13_ExampleFields ==
    (call.fn = "extract_fields" /\ call.returned /\ call.text = ExampleText) =>
        /\ <<"1","5","/","0","1","/","2","0","2","4">> \in Range(call.ret.dates)
        /\ <<"$","5","0","0",".","5","0">> \in Range(call.ret.amounts)
        /\ call.ret.emails = << <<"a","@","b",".","c","o","m">> >>

\* extract_fields has returned for the example text
C13_Witness ==
    /\ call.fn = "extract_fields"
    /\ call.returned
    /\ call.text = ExampleText
    /\ call.ret.dates # <<>>

\* the artifacts process_document writes for the file named f
ImageArtifact(f) == Stem(PathJoin(INPUT_DIR, f)) \o PREPROCESSED_SUFFIX
JsonArtifact(f) == Stem(PathJoin(INPUT_DIR, f)) \o EXTRACTED_SUFFIX

\* C15: when load_image fails for a document, process_document returns
\* without another call: no stage is entered (no OCR, no preprocessing, no
\* save_image, no save_json), both output directories stay as they are, and
\* so no artifact named after a file that does not load ever exists (the
\* files of the input directory have stems of their own).
C15_LoadFailureWritesNothing ==
    /\ [][(InLoop /\ doc_pc = "idle" /\ ~files[image_files[idx]].pil) =>
            /\ out_images' = out_images
            /\ out_json' = out_json
            /\ doc_pc' = "idle"
            /\ trace' = <<>>
            /\ UNCHANGED << saved, preprocessed, text_after, faults, clock >>]_vars
    /\ [](\A f \in DOMAIN files :
            ~files[f].pil =>
               /\ ImageArtifact(f) \notin DOMAIN out_images
               /\ JsonArtifact(f) \notin DOMAIN out_json)

\* a document failed to load and left nothing, another one of the batch has
\* both its artifacts
C15_Witness ==
    /\ main_pc = "loop"
    /\ \E i, j \in 1..Len(all_results) :
         /\ ~files[image_files[i]].pil
         /\ ImageArtifact(image_files[i]) \notin DOMAIN out_images
         /\ JsonArtifact(image_files[i]) \notin DOMAIN out_json
         /\ ImageArtifact(image_files[j]) \in DOMAIN out_images
         /\ JsonArtifact(image_files[j]) \in DOMAIN out_json

\* the files get_sample_images may remove: an image extension and
\* sample_invoice in the name
Removable(f) == IsImageName(f) /\ Contains(f, SAMPLE_MARK)

\* C16: get_sample_images removes only files that have an image extension and
\* sample_invoice in their name: every other file of the input directory is
\* there afterwards, as it was; and main then lists every image file the
\* directory holds, so every image of the user that is still there.
C16_OnlySamplesRemoved ==
    /\ [][main_pc = "samples" =>
            \A f \in DOMAIN files :
               /\ f \notin DOMAIN files' => Removable(f)
               /\ ~Removable(f) => (f \in DOMAIN files' /\ files'[f] = files[f])]_vars
    /\ [][(main_pc = "list" /\ main_pc' = "loop") =>
            /\ {image_files'[j] : j \in 1..Len(image_files')} = ImageNames(DOMAIN files)
            /\ \A i, j \in 1..Len(image_files') :
                  image_files'[i] = image_files'[j] => i = j]_vars
    /\ [][main_pc = "list" => UNCHANGED files]_vars
    /\ [][(main_pc = "list" /\ main_pc' = "returned") =>
            (~dir_exists \/ ImageNames(DOMAIN files) = {})]_vars

\* the user's image named sample_invoice is gone, the text file named
\* sample_invoice is still there, and main has listed the samples
C16_Witness ==
    /\ main_pc = "loop"
    /\ MY_SAMPLE_BMP \notin DOMAIN files
    /\ SAMPLE_NOTES_TXT \in DOMAIN files
    /\ files[SAMPLE_NOTES_TXT] = UserContent(SAMPLE_NOTES_TXT)
    /\ Len(image_files) >= 2
    /\ SAMPLE_NOTES_TXT \notin {image_files[j] : j \in 1..Len(image_files)}

\* json.load of one written unit, of a str, of a list of str
JsonUnescape(u) ==
    CASE u = "\\\"" -> "\""
      [] u = "\\\\" -> "\\"
      [] u = "\\n" -> "\n"
      [] u = "\\r" -> "\r"
      [] u = "\\t" -> "\t"
      [] OTHER -> u

JsonParseString(e) == [j \in 1..Len(e) |-> JsonUnescape(e[j])]

JsonParseList(l) == [j \in 1..Len(l) |-> JsonParseString(l[j])]

\* the JSON document doc, parsed back, is the record of the result res
ParsesBackTo(doc, res) ==
    /\ JsonParseList(doc.dates) = res.fields.dates
    /\ JsonParseList(doc.amounts) = res.fields.amounts
    /\ JsonParseList(doc.emails) = res.fields.emails
    /\ LET t == JsonParseString(doc.extracted_text)
           full == res.text_after_preprocessing
       IN  /\ Len(t) = IF Len(full) <= 500 THEN Len(full) ELSE 500
           /\ \A j \in 1..Len(t) : t[j] = full[j]

\* C12: the JSON record written for a processed document, parsed back, gives
\* the dates, amounts and emails of the document's result fields, and its
\* extracted_text is the first 500 characters of the post-preprocessing text
\* (the whole text when it has no more): the step that writes the record
\* leaves a document that parses back to the result, which is the result
\* process_document then returns, and no other step touches the records.
C12_JsonRoundTrip ==
    /\ [][(doc_pc = "ImageSaved" /\ saved'.json = "path") =>
            /\ JsonArtifact(image_files[idx]) \in DOMAIN out_json'
            /\ ParsesBackTo(out_json'[JsonArtifact(image_files[idx])], results)
            /\ results' = results
            /\ \A k \in DOMAIN out_json \ {JsonArtifact(image_files[idx])} :
                  k \in DOMAIN out_json' /\ out_json'[k] = out_json[k]]_vars
    /\ [][doc_pc # "ImageSaved" => out_json' = out_json]_vars
    /\ [][doc_pc = "Persisted" => all_results' = Append(all_results, results)]_vars

\* the record of a document whose text is longer than 500 characters and has
\* a line break in its first 500 has been written
C12_Witness ==
    /\ doc_pc = "Persisted"
    /\ saved.json = "path"
    /\ Len(text_after) > 500
    /\ \E j \in 1..500 : text_after[j] = "\n"
    /\ Len(out_json[JsonArtifact(image_files[idx])].extracted_text) = 500
    /\ \E j \in 1..500 : out_json[JsonArtifact(image_files[idx])].extracted_text[j] = "\\n"
    /\ fields.amounts # <<>>

\* C14: for any input raster, what preprocess_image returns has one channel
\* and the shape of its input, and every pixel of it is 0 or 255.
C14_BinarySingleChannel ==
    (call.fn = "preprocess_image" /\ call.returned) =>
        /\ call.ret.channels = 1
        /\ call.ret.rows = call.image.rows /\ call.ret.cols = call.image.cols
        /\ DOMAIN call.ret.px = (1..call.image.rows) \X (1..call.image.cols)
        /\ \A q \in DOMAIN call.ret.px : call.ret.px[q] \in {0, 255}

\* a raster of three colours or more came back with pixels of both values
C14_Witness ==
    /\ call.fn = "preprocess_image"
    /\ call.returned
    /\ Cardinality({call.image.px[q] : q \in DOMAIN call.image.px}) >= 3
    /\ {call.ret.px[q] : q \in DOMAIN call.ret.px} = {0, 255}

====
